---- MODULE Spec2Model ----
(***************************************************************************)
(* Eve's Quantum Clone Computer: the dual-state simulator of               *)
(* src/src/EveQuantumComputer.js (true state vector + inferred density     *)
(* matrix), its operator expansion, and the Matrix algebra it calls.       *)
(*                                                                         *)
(* Numbers.  A JavaScript double is modelled as an exact extended          *)
(* rational <<n, d>> in lowest terms with d >= 0:                          *)
(*     d > 0        the real number n/d                                    *)
(*     <<1, 0>>     +Infinity      <<-1, 0>>  -Infinity                    *)
(*     <<0, 0>>     NaN                                                    *)
(* with the IEEE-754 rules for the special values (1/0 = Infinity,         *)
(* 0*Infinity = NaN, NaN absorbs, every comparison with NaN is false).     *)
(* Rounding is not modelled: finite arithmetic is exact.  A complex number *)
(* is a pair <<re, im>> of such rationals (the interleaved buffer of the   *)
(* Matrix class holds re at 2k and im at 2k+1).                            *)
(***************************************************************************)
EXTENDS Integers, Sequences, FiniteSets, TLC

\* ------------------------------------------------------------------------
\* Extended rationals (JavaScript numbers)
\* ------------------------------------------------------------------------
RECURSIVE Gcd(_, _)
Gcd(a, b) == IF b = 0 THEN a ELSE Gcd(b, a % b)

IAbs(n) == IF n < 0 THEN -n ELSE n
ISign(n) == IF n < 0 THEN -1 ELSE IF n > 0 THEN 1 ELSE 0

NaN == <<0, 0>>
PosInf == <<1, 0>>
RZero == <<0, 1>>
ROne == <<1, 1>>

\* n/d in lowest terms (d > 0), or the special value with the sign of n (d = 0)
Frac(n, d) ==
    IF d = 0 THEN <<ISign(n), 0>>
    ELSE IF n = 0 THEN RZero
    ELSE LET s == IF d < 0 THEN -1 ELSE 1
             g == Gcd(IAbs(n), IAbs(d))
         IN  <<(s * n) \div g, IAbs(d) \div g>>

IsNaN(a) == a = NaN
IsInf(a) == a[2] = 0 /\ a[1] # 0
IsFinite(a) == a[2] > 0

RNeg(a) == <<-a[1], a[2]>>

RAdd(a, b) ==
    IF IsNaN(a) \/ IsNaN(b) THEN NaN
    ELSE IF IsInf(a) /\ IsInf(b) THEN (IF a = b THEN a ELSE NaN)
    ELSE IF IsInf(a) THEN a
    ELSE IF IsInf(b) THEN b
    ELSE IF a[1] = 0 THEN b
    ELSE IF b[1] = 0 THEN a
    ELSE LET g == Gcd(a[2], b[2])
             l == (a[2] \div g) * b[2]
         IN  Frac(a[1] * (l \div a[2]) + b[1] * (l \div b[2]), l)

RSub(a, b) == RAdd(a, RNeg(b))

RMul(a, b) ==
    IF IsNaN(a) \/ IsNaN(b) THEN NaN
    ELSE IF IsInf(a) \/ IsInf(b)
         THEN <<ISign(a[1]) * ISign(b[1]), 0>>      \* 0 * Infinity = NaN
    ELSE IF a[1] = 0 \/ b[1] = 0 THEN RZero
    ELSE LET g1 == Gcd(IAbs(a[1]), b[2])
             g2 == Gcd(IAbs(b[1]), a[2])
         IN  <<(a[1] \div g1) * (b[1] \div g2), (a[2] \div g2) * (b[2] \div g1)>>

\* 1 / a   (1/0 = Infinity, 1/Infinity = 0, 1/NaN = NaN)
RInv(a) ==
    IF IsNaN(a) THEN NaN
    ELSE IF IsInf(a) THEN RZero
    ELSE IF a[1] = 0 THEN PosInf
    ELSE IF a[1] < 0 THEN <<-a[2], -a[1]>>
    ELSE <<a[2], a[1]>>

\* Math.abs
RAbs(a) == <<IAbs(a[1]), a[2]>>

\* a < b on doubles: false as soon as one side is NaN
RLess(a, b) ==
    IF IsNaN(a) \/ IsNaN(b) THEN FALSE
    ELSE IF IsInf(a) \/ IsInf(b)
         THEN (IF IsInf(a) /\ IsInf(b) THEN a[1] < b[1]
               ELSE IF IsInf(a) THEN a[1] < 0
               ELSE b[1] > 0)
    ELSE a[1] * b[2] < b[1] * a[2]

RLeq(a, b) == RLess(a, b) \/ (~IsNaN(a) /\ a = b)

\* Integer square root by bisection: the k in lo..hi with k*k = n, or -1
RECURSIVE ISqrtIn(_, _, _)
ISqrtIn(n, lo, hi) ==
    IF lo > hi THEN -1
    ELSE LET mid == (lo + hi) \div 2
         IN  IF mid * mid = n THEN mid
             ELSE IF mid * mid < n THEN ISqrtIn(n, mid + 1, hi)
             ELSE ISqrtIn(n, lo, mid - 1)

ISqrt(n) == ISqrtIn(n, 0, IF n < 46340 THEN n ELSE 46340)

IsSquare(a) == ~IsFinite(a) \/ (a[1] >= 0 /\ ISqrt(a[1]) >= 0 /\ ISqrt(a[2]) >= 0)

\* Math.sqrt.  The model keeps every radicand a square of a rational (see
\* SqrtExact); on any other finite radicand the value is not representable
\* and the evaluation stops.
RSqrt(a) ==
    IF IsNaN(a) THEN NaN
    ELSE IF IsInf(a) THEN (IF a[1] > 0 THEN a ELSE NaN)
    ELSE IF a[1] < 0 THEN NaN
    ELSE IF IsSquare(a) THEN <<ISqrt(a[1]), ISqrt(a[2])>>
    ELSE CHOOSE x \in {} : TRUE

\* ------------------------------------------------------------------------
\* Complex numbers <<re, im>>
\* ------------------------------------------------------------------------
Cx(re, im) == <<re, im>>
CReal(n, d) == <<Frac(n, d), RZero>>
CZero == <<RZero, RZero>>
COne == <<ROne, RZero>>

CAdd(x, y) == <<RAdd(x[1], y[1]), RAdd(x[2], y[2])>>
CSub(x, y) == <<RSub(x[1], y[1]), RSub(x[2], y[2])>>
CMul(x, y) == <<RSub(RMul(x[1], y[1]), RMul(x[2], y[2])),
                RAdd(RMul(x[1], y[2]), RMul(x[2], y[1]))>>
CConj(x) == <<x[1], RNeg(x[2])>>
\* re*re + im*im
CNorm2(x) == RAdd(RMul(x[1], x[1]), RMul(x[2], x[2]))
\* Complex.abs(): sqrt(re*re + im*im), which is |re| when im = 0
CAbs(x) == IF x[2] = RZero THEN RAbs(x[1]) ELSE RSqrt(CNorm2(x))

\* ------------------------------------------------------------------------
\* Matrix (src/math/Matrix.js): new Matrix(width, height, buffer), the
\* buffer row-major, entry (r, c) at element r*width + c (0-based)
\* ------------------------------------------------------------------------
RECURSIVE Buffer(_, _, _)
\* the buffer holding f[from], ..., f[to], every entry computed once
Buffer(f, from, to) ==
    IF from > to THEN <<>>
    ELSE IF from = to THEN <<f[from]>>
    ELSE LET mid == (from + to) \div 2
         IN  Buffer(f, from, mid) \o Buffer(f, mid + 1, to)

Matrix(w, h, buf) == [w |-> w, h |-> h, buf |-> Buffer(buf, 1, w * h)]

\* entry (r, c), 0-based
Cell(m, r, c) == m.buf[r * m.w + c + 1]

RECURSIVE CSum(_, _, _)
\* f[from] + ... + f[to]
CSum(f, from, to) ==
    IF from > to THEN CZero
    ELSE IF from = to THEN f[from]
    ELSE LET mid == (from + to) \div 2
         IN  CAdd(CSum(f, from, mid), CSum(f, mid + 1, to))

identity(n) ==
    Matrix(n, n, [k \in 1..(n * n) |->
                    IF (k - 1) \div n = (k - 1) % n THEN COne ELSE CZero])

\* Matrix.times(Matrix): the matrix product a.b
times(a, b) ==
    Matrix(b.w, a.h,
           [k \in 1..(a.h * b.w) |->
               LET r == (k - 1) \div b.w
                   c == (k - 1) % b.w
               IN  CSum([j \in 0..(a.w - 1) |-> CMul(Cell(a, r, j), Cell(b, j, c))],
                        0, a.w - 1)])

\* Matrix.times(scalar): uniform scaling
timesScalar(a, s) == Matrix(a.w, a.h, [k \in 1..(a.w * a.h) |-> CMul(a.buf[k], s)])

\* Matrix.adjoint(): conjugate transpose
adjoint(a) ==
    Matrix(a.h, a.w,
           [k \in 1..(a.w * a.h) |->
               LET r == (k - 1) \div a.h
                   c == (k - 1) % a.h
               IN  CConj(Cell(a, c, r))])

\* Matrix.trace(): sum of the diagonal
trace(a) == CSum([j \in 0..(a.h - 1) |-> Cell(a, j, j)], 0, a.h - 1)

\* Matrix.minus(Matrix)
minus(a, b) == Matrix(a.w, a.h, [k \in 1..(a.w * a.h) |-> CSub(a.buf[k], b.buf[k])])

\* a.tensorProduct(b): Kronecker product, a's index the more significant
tensorProduct(a, b) ==
    Matrix(a.w * b.w, a.h * b.h,
           [k \in 1..(a.w * b.w * a.h * b.h) |->
               LET r == (k - 1) \div (a.w * b.w)
                   c == (k - 1) % (a.w * b.w)
               IN  CMul(Cell(a, r \div b.h, c \div b.w), Cell(b, r % b.h, c % b.w))])

RECURSIVE RSumNorm2(_, _, _)
\* sum of re*re + im*im over entries from..to of a buffer
RSumNorm2(buf, from, to) ==
    IF from > to THEN RZero
    ELSE IF from = to THEN CNorm2(buf[from])
    ELSE LET mid == (from + to) \div 2
         IN  RAdd(RSumNorm2(buf, from, mid), RSumNorm2(buf, mid + 1, to))

\* a.isUnitary(epsilon): square, and a.adjoint(a) within epsilon of identity
isUnitary(a, epsilon) ==
    /\ a.w = a.h
    /\ LET d == minus(times(a, adjoint(a)), identity(a.w))
       IN  RLeq(RSumNorm2(d.buf, 1, a.w * a.h), RMul(epsilon, epsilon))

\* Util.isPowerOf2
RECURSIVE isPowerOf2(_)
isPowerOf2(i) == i > 0 /\ (i = 1 \/ (i % 2 = 0 /\ isPowerOf2(i \div 2)))

RECURSIVE Log2(_)
Log2(n) == IF n <= 1 THEN 0 ELSE 1 + Log2(n \div 2)

\* bitwise operators on non-negative integers
RECURSIVE BitAnd(_, _)
BitAnd(a, b) ==
    IF a = 0 \/ b = 0 THEN 0
    ELSE 2 * BitAnd(a \div 2, b \div 2) + (IF a % 2 = 1 /\ b % 2 = 1 THEN 1 ELSE 0)

RECURSIVE BitOr(_, _)
BitOr(a, b) ==
    IF a = 0 THEN b
    ELSE IF b = 0 THEN a
    ELSE 2 * BitOr(a \div 2, b \div 2) + (IF a % 2 = 1 \/ b % 2 = 1 THEN 1 ELSE 0)

\* 1 << e
RECURSIVE Shl1(_)
Shl1(e) == IF e = 0 THEN 1 ELSE 2 * Shl1(e - 1)

\* ------------------------------------------------------------------------
\* src/src/EveQuantumComputer.js: module-level helpers
\* ------------------------------------------------------------------------
\* let absCol = m => Math.sqrt(m.adjoint().times(m).trace().abs());
absCol(m) == RSqrt(CAbs(trace(times(adjoint(m), m))))

\* let normalizeCol = m => m.times(1 / absCol(m));
normalizeCol(m) == timesScalar(m, Cx(RInv(absCol(m)), RZero))

\* let normalizeDensity = m => m.times(1 / m.trace().abs());
normalizeDensity(m) == timesScalar(m, Cx(RInv(CAbs(trace(m))), RZero))

\* generateUnknownState: buf[i] = Math.random() - 0.5 for the 2 << numQubits
\* reals of the buffer; draws[k] is the sample that filled entry k (re, im)
generateUnknownState(numQubits, draws) ==
    normalizeCol(Matrix(1, Shl1(numQubits),
        [k \in 1..Shl1(numQubits) |->
            Cx(RSub(draws[k][1], Frac(1, 2)), RSub(draws[k][2], Frac(1, 2)))]))

\* controlify testing the row index only
controlify_rowsOnly(matrix, controlMask) ==
    LET w == matrix.w
        h == matrix.h
    IN  Matrix(w, h,
               [k \in 1..(w * h) |->
                   LET r == (k - 1) \div w
                       c == (k - 1) % w
                   IN  IF BitAnd(controlMask, r) # controlMask
                       THEN (IF r = c THEN COne ELSE CZero)
                       ELSE matrix.buf[k]])

controlify(matrix, controlMask) ==
    LET w == matrix.w
        h == matrix.h
    IN  Matrix(w, h,
               [k \in 1..(w * h) |->
                   LET r == (k - 1) \div w
                       c == (k - 1) % w
                   IN  IF BitAnd(controlMask, r) # controlMask
                          \/ BitAnd(controlMask, c) # controlMask
                       THEN (IF r = c THEN COne ELSE CZero)
                       ELSE matrix.buf[k]])

\* seq(controls).aggregate(0, (a, e) => a | (1 << e))
RECURSIVE aggregateMask(_, _)
aggregateMask(controls, n) ==
    IF n = 0 THEN 0 ELSE BitOr(aggregateMask(controls, n - 1), Shl1(controls[n]))

RECURSIVE expandLoop(_, _, _, _)
\* the state of opMatrix after the loop body has run for i = 0 .. upTo-1
expandLoop(singleQubitOperationMatrix, qubitIndex, upTo, start) ==
    IF upTo = 0 THEN start
    ELSE LET i == upTo - 1
             m == IF i = qubitIndex THEN singleQubitOperationMatrix ELSE identity(2)
         IN  tensorProduct(m, expandLoop(singleQubitOperationMatrix, qubitIndex, i, start))

\* expandOp with the qubits laid out in the opposite order: the loop places
\* the operation at position numQubits - 1 - qubitIndex
expandOp_reversed(singleQubitOperationMatrix, qubitIndex, numQubits, controls) ==
    LET controlMask == aggregateMask(controls, Len(controls))
        opMatrix == expandLoop(singleQubitOperationMatrix,
                               numQubits - 1 - qubitIndex, numQubits,
                               Matrix(1, 1, <<COne>>))
    IN  controlify(opMatrix, controlMask)

expandOp(singleQubitOperationMatrix, qubitIndex, numQubits, controls) ==
    LET controlMask == aggregateMask(controls, Len(controls))
        opMatrix == expandLoop(singleQubitOperationMatrix, qubitIndex, numQubits,
                               Matrix(1, 1, <<COne>>))
    IN  controlify(opMatrix, controlMask)

postselectCol(col, qubitIndex, qubitValue) ==
    LET mask == Shl1(qubitIndex)
        h == col.h
    IN  normalizeCol(Matrix(1, h,
            [k \in 1..h |->
                IF (BitAnd(k - 1, mask) # 0) # qubitValue THEN CZero ELSE col.buf[k]]))

postselectDensity(densityMatrix, qubitIndex, qubitValue) ==
    LET mask == Shl1(qubitIndex)
        w == densityMatrix.w
        h == densityMatrix.h
    IN  normalizeDensity(Matrix(w, h,
            [k \in 1..(w * h) |->
                LET r == (k - 1) \div w
                    c == (k - 1) % w
                IN  IF (BitAnd(c, mask) # 0) # qubitValue
                       \/ (BitAnd(r, mask) # 0) # qubitValue
                    THEN CZero
                    ELSE densityMatrix.buf[k]]))

\* ------------------------------------------------------------------------
\* class EveQuantumComputer
\* ------------------------------------------------------------------------
\* The constructor's argument: any value; instanceOfMatrix tells whether it
\* is a Matrix.  The result: threw (no object is created) or the new object.
constructor(initialState) ==
    IF ~initialState.instanceOfMatrix
       \/ ~isPowerOf2(initialState.value.h)
       \/ initialState.value.w # 1
    THEN [threw |-> TRUE]
    ELSE [threw |-> FALSE,
          this |-> [actualHiddenState |-> normalizeCol(initialState.value),
                    inferredStateDensity |->
                        normalizeDensity(identity(initialState.value.h)),
                    operationCount |-> 0,
                    expectedIgnoranceErrors |-> RZero]]

\* applyOperation with the inferred density matrix rebuilt from the new true
\* state (the outer product) instead of being conjugated by opMatrix
applyOperation_densityFromState(this, opMatrix) ==
    LET counted == [this EXCEPT !.operationCount = @ + 1]
    IN  IF opMatrix.w # this.actualHiddenState.h
           \/ opMatrix.h # this.actualHiddenState.h
           \/ ~isUnitary(opMatrix, Frac(1, 1000))
        THEN [threw |-> TRUE, this |-> counted]
        ELSE LET new == times(opMatrix, this.actualHiddenState)
             IN  [threw |-> FALSE,
                  this |-> [counted EXCEPT
                      !.actualHiddenState = new,
                      !.inferredStateDensity = times(new, adjoint(new))]]

\* applyOperation(opMatrix) on the object this: the object afterwards, and
\* whether the call threw
applyOperation(this, opMatrix) ==
    LET counted == [this EXCEPT !.operationCount = @ + 1]
    IN  IF opMatrix.w # this.actualHiddenState.h
           \/ opMatrix.h # this.actualHiddenState.h
           \/ ~isUnitary(opMatrix, Frac(1, 1000))
        THEN [threw |-> TRUE, this |-> counted]
        ELSE [threw |-> FALSE,
              this |-> [counted EXCEPT
                  !.actualHiddenState = times(opMatrix, this.actualHiddenState),
                  !.inferredStateDensity =
                      times(times(opMatrix, this.inferredStateDensity),
                            adjoint(opMatrix))]]

RECURSIVE onNessLoop(_, _, _, _)
\* the for loop of measureQubit over buffer offsets i = 0, 2, ..., below upTo:
\* <<actualOnNess, predictedOnNess>>
onNessLoop(this, qubitIndex, upTo, acc) ==
    IF upTo = 0 THEN acc
    ELSE LET prev == onNessLoop(this, qubitIndex, upTo - 2, acc)
             i == upTo - 2
             len == 2 * this.actualHiddenState.h
         IN  IF BitAnd(i \div 2, Shl1(qubitIndex)) # 0
             THEN LET amp == this.actualHiddenState.buf[(i \div 2) + 1]
                      \* inferredBuf[i*(actualBuf.length/2 + 1)]: an even offset,
                      \* the real part of element (i/2)*(len/2 + 1)
                      k == i * ((len \div 2) + 1)
                  IN  <<RAdd(prev[1], RAdd(RMul(amp[1], amp[1]), RMul(amp[2], amp[2]))),
                        RAdd(prev[2], this.inferredStateDensity.buf[(k \div 2) + 1][1])>>
             ELSE prev

\* measureQubit with the inferred density matrix rebuilt from the collapsed
\* true state (its outer product) instead of post-selected
measureQubit_densityFromState(this, qubitIndex, random) ==
    LET ness == onNessLoop(this, qubitIndex, 2 * this.actualHiddenState.h,
                           <<RZero, RZero>>)
        actualOnNess == ness[1]
        predictedOnNess == ness[2]
        result == RLess(random, actualOnNess)
        new == postselectCol(this.actualHiddenState, qubitIndex, result)
    IN  [result |-> result,
         randomCalls |-> 1,
         this |-> [actualHiddenState |-> new,
                   inferredStateDensity |-> times(new, adjoint(new)),
                   operationCount |-> this.operationCount + 1,
                   expectedIgnoranceErrors |->
                       RAdd(this.expectedIgnoranceErrors,
                            RAbs(RSub(predictedOnNess, actualOnNess)))]]

\* measureQubit with the sample compared by <= instead of <
measureQubit_sampleLeq(this, qubitIndex, random) ==
    LET ness == onNessLoop(this, qubitIndex, 2 * this.actualHiddenState.h,
                           <<RZero, RZero>>)
        actualOnNess == ness[1]
        predictedOnNess == ness[2]
        result == RLeq(random, actualOnNess)
    IN  [result |-> result,
         randomCalls |-> 1,
         this |-> [actualHiddenState |->
                       postselectCol(this.actualHiddenState, qubitIndex, result),
                   inferredStateDensity |->
                       postselectDensity(this.inferredStateDensity, qubitIndex, result),
                   operationCount |-> this.operationCount + 1,
                   expectedIgnoranceErrors |->
                       RAdd(this.expectedIgnoranceErrors,
                            RAbs(RSub(predictedOnNess, actualOnNess)))]]

\* measureQubit(qubitIndex) on the object this, random the value returned by
\* its one call of Math.random()
measureQubit(this, qubitIndex, random) ==
    LET ness == onNessLoop(this, qubitIndex, 2 * this.actualHiddenState.h,
                           <<RZero, RZero>>)
        actualOnNess == ness[1]
        predictedOnNess == ness[2]
        result == RLess(random, actualOnNess)
    IN  [result |-> result,
         randomCalls |-> 1,      \* Math.random() is called once
         this |-> [actualHiddenState |->
                       postselectCol(this.actualHiddenState, qubitIndex, result),
                   inferredStateDensity |->
                       postselectDensity(this.inferredStateDensity, qubitIndex, result),
                   operationCount |-> this.operationCount + 1,
                   expectedIgnoranceErrors |->
                       RAdd(this.expectedIgnoranceErrors,
                            RAbs(RSub(predictedOnNess, actualOnNess)))]]

expandOperation(this, singleQubitOperationMatrix, targetQubit, qubitsUsedAsControls) ==
    LET n == Log2(this.actualHiddenState.h)
    IN  expandOp(singleQubitOperationMatrix, targetQubit, n, qubitsUsedAsControls)

RECURSIVE traceLoop(_, _, _, _)
\* the two nested loops of traceQubitOutOfDensityMatrix over r and c, as one
\* loop over the row-major offsets 0 .. upTo-1 of the density matrix: newBuf
\* as the four complex numbers at k0 = (r0*2 + c0)*2
traceLoop(density, qubitIndex, upTo, newBuf) ==
    IF upTo = 0 THEN newBuf
    ELSE LET acc == traceLoop(density, qubitIndex, upTo - 1, newBuf)
             mask == Shl1(qubitIndex)
             r == (upTo - 1) \div density.w
             c == (upTo - 1) % density.w
         IN  IF r - BitAnd(r, mask) # c - BitAnd(c, mask)    \* (r & ~mask) !== (c & ~mask)
             THEN acc
             ELSE LET c0 == (c \div mask) % 2
                      r0 == (r \div mask) % 2
                  IN  [acc EXCEPT ![r0 * 2 + c0 + 1] = CAdd(@, density.buf[upTo])]

\* traceQubitOutOfDensityMatrix with the result's row and column exchanged
\* (k0 = (c0*2 + r0)*2)
traceQubitOutOfDensityMatrix_transposed(density, qubitIndex) ==
    LET newBuf == traceLoop(density, qubitIndex, density.w * density.h,
                            <<CZero, CZero, CZero, CZero>>)
    IN  Matrix(2, 2, <<newBuf[1], newBuf[3], newBuf[2], newBuf[4]>>)

traceQubitOutOfDensityMatrix(density, qubitIndex) ==
    Matrix(2, 2, traceLoop(density, qubitIndex, density.w * density.h,
                           <<CZero, CZero, CZero, CZero>>))

\* ------------------------------------------------------------------------
\* Inputs.  Entries are rationals chosen so that every norm the program
\* takes a square root of is the square of a rational.
\* ------------------------------------------------------------------------
\* Matrix.PAULI_X, Matrix.PAULI_Y
PAULI_X == Matrix(2, 2, <<CZero, COne, COne, CZero>>)
PAULI_Y == Matrix(2, 2, <<CZero, Cx(RZero, Frac(-1, 1)), Cx(RZero, ROne), CZero>>)
\* a rotation about the Y axis with rational entries (cos = 3/5, sin = 4/5)
ROT_Y == Matrix(2, 2, <<CReal(3, 5), CReal(-4, 5), CReal(4, 5), CReal(3, 5)>>)
\* a matrix that is not unitary (a shear)
SHEAR == Matrix(2, 2, <<COne, COne, CZero, COne>>)

MaxOps == 4

Col(s) == [instanceOfMatrix |-> TRUE, value |-> Matrix(1, Len(s), s)]

\* what a driver may pass to the constructor
InitialStates ==
    { Col(<<COne, CZero>>),
      Col(<<CReal(3, 1), CReal(4, 1)>>),
      Col(<<CZero, Cx(RZero, Frac(2, 1))>>),
      Col(<<CZero, CZero>>),
      Col(<<CReal(3, 5), CZero, CZero, CReal(4, 5)>>),
      Col(<<COne>>),
      Col(<<COne, CZero, CZero>>),
      [instanceOfMatrix |-> TRUE, value |-> PAULI_X],
      [instanceOfMatrix |-> FALSE, value |-> Matrix(1, 2, <<COne, CZero>>)] }

\* the samples Math.random() returns, in [0, 1)
Randoms == {RZero, Frac(1, 2), Frac(99, 100)}

\* the samples generateUnknownState may draw for a 1-qubit register
RandomDraws ==
    { <<<<Frac(9, 10), Frac(1, 2)>>, <<Frac(1, 5), Frac(1, 2)>>>>,
      <<<<Frac(1, 2), Frac(1, 2)>>, <<Frac(1, 2), Frac(9, 10)>>>> }

\* the matrices a driver may pass to applyOperation: operators it expanded
\* with expandOperation, and matrices that are not unitary or of another size
Operators0 == {identity(1), timesScalar(identity(1), CReal(2, 1)), PAULI_X}
Operators1 ==
    { expandOp(g, 0, 1, <<>>) : g \in {PAULI_X, PAULI_Y, ROT_Y, adjoint(ROT_Y)} }
    \cup {SHEAR, identity(4)}
Operators2 ==
    { expandOp(PAULI_X, 0, 2, <<>>),
      expandOp(PAULI_X, 1, 2, <<>>),
      expandOp(PAULI_X, 1, 2, <<0>>),
      expandOp(PAULI_Y, 0, 2, <<1>>),
      expandOp(PAULI_X, 0, 2, <<0>>),
      PAULI_X }
Operators(this) ==
    LET n == Log2(this.actualHiddenState.h)
    IN  IF n = 1 THEN Operators1 ELSE IF n = 2 THEN Operators2 ELSE Operators0

\* ------------------------------------------------------------------------
\* The program: a driver that constructs one computer and then calls
\* applyOperation and measureQubit on it
\* ------------------------------------------------------------------------
VARIABLES
    pc,      \* "start": nothing constructed; "running"; "failed": constructor threw
    qpu,     \* the EveQuantumComputer object (its four fields)
    last,    \* the latest call: what was called, with what, what it returned
    prev,    \* the call before it
    twin,    \* a second EveQuantumComputer object (used by SpecTwin only)
    performed \* how many applyOperation and measureQubit calls have returned
              \* without throwing (history; the program does not read it)

vars == <<pc, qpu, last, prev, twin, performed>>

NoMatrix == Matrix(0, 0, <<>>)
NoCall == [call |-> "none", threw |-> FALSE, op |-> NoMatrix, qubitIndex |-> 0,
           controls |-> <<>>, random |-> RZero, randomCalls |-> 0,
           result |-> FALSE, out |-> NoMatrix, arg |-> Col(<<>>), pre |-> <<>>]

Init ==
    /\ pc = "start"
    /\ qpu = <<>>
    /\ last = NoCall
    /\ prev = NoCall
    /\ twin = <<>>
    /\ performed = 0

\* EveQuantumComputer.withInitialState(column)
WithInitialState(column) ==
    /\ pc = "start"
    /\ \E r \in {constructor(column)} :
           /\ pc' = IF r.threw THEN "failed" ELSE "running"
           /\ qpu' = IF r.threw THEN qpu ELSE r.this
           /\ last' = [NoCall EXCEPT !.call = "new", !.threw = r.threw, !.arg = column]
    /\ prev' = last
    /\ UNCHANGED <<twin, performed>>

\* EveQuantumComputer.withRandomInitialState(1)
WithRandomInitialState(draws) ==
    /\ pc = "start"
    /\ \E column \in {[instanceOfMatrix |-> TRUE,
                         value |-> generateUnknownState(1, draws)]} :
         \E r \in {constructor(column)} :
           /\ pc' = IF r.threw THEN "failed" ELSE "running"
           /\ qpu' = IF r.threw THEN qpu ELSE r.this
           /\ last' = [NoCall EXCEPT !.call = "random", !.threw = r.threw,
                                     !.randomCalls = 2 * Len(draws),
                                     !.arg = column]
    /\ prev' = last
    /\ UNCHANGED <<twin, performed>>

ApplyOperation(opMatrix) ==
    /\ pc = "running"
    /\ qpu.operationCount < MaxOps
    /\ \E r \in {applyOperation(qpu, opMatrix)} :
           /\ qpu' = r.this
           /\ last' = [NoCall EXCEPT !.call = "apply", !.threw = r.threw,
                                     !.op = opMatrix, !.pre = qpu]
           /\ performed' = IF r.threw THEN performed ELSE performed + 1
    /\ prev' = last
    /\ UNCHANGED <<pc, twin>>

MeasureQubit(qubitIndex, random) ==
    /\ pc = "running"
    /\ qpu.operationCount < MaxOps
    /\ \E r \in {measureQubit(qpu, qubitIndex, random)} :
           /\ qpu' = r.this
           /\ last' = [NoCall EXCEPT !.call = "measure", !.qubitIndex = qubitIndex,
                                     !.random = random, !.result = r.result,
                                     !.randomCalls = r.randomCalls,
                                     !.pre = qpu]
    /\ performed' = performed + 1
    /\ prev' = last
    /\ UNCHANGED <<pc, twin>>

Next ==
    \/ \E column \in InitialStates : WithInitialState(column)
    \/ \E draws \in RandomDraws : WithRandomInitialState(draws)
    \/ pc = "running" /\ \E opMatrix \in Operators(qpu) : ApplyOperation(opMatrix)
    \/ \E qubitIndex \in 0..1, random \in Randoms : MeasureQubit(qubitIndex, random)

Spec == Init /\ [][Next]_vars

\* ------------------------------------------------------------------------
\* expandOperation on its own: one call on a computer of 1..MaxQubits qubits,
\* for every gate, target and control list of the bounded input sets
\* ------------------------------------------------------------------------
MaxQubits == 3

Gates == {PAULI_X, PAULI_Y, ROT_Y, SHEAR}

RECURSIVE Ascending(_)
\* the strictly ascending lists of indices below k
Ascending(k) ==
    IF k = 0 THEN {<<>>}
    ELSE Ascending(k - 1) \cup {Append(c, k - 1) : c \in Ascending(k - 1)}

\* control lists: every set of indices in order, one out of order, one repeated
ControlLists == Ascending(MaxQubits) \cup {<<1, 0>>, <<0, 0>>}

\* the column of the basis state 0 of numQubits qubits
BasisColumn(numQubits) ==
    Col([k \in 1..Shl1(numQubits) |-> IF k = 1 THEN COne ELSE CZero])

InitExpand ==
    /\ pc = "running"
    /\ qpu \in {constructor(BasisColumn(n)).this : n \in 1..MaxQubits}
    /\ last = NoCall
    /\ prev = NoCall
    /\ twin = <<>>
    /\ performed = 0

ExpandOperation(singleQubitOperationMatrix, targetQubit, qubitsUsedAsControls) ==
    /\ pc = "running"
    /\ last.call = "none"
    /\ last' = [NoCall EXCEPT
                   !.call = "expand",
                   !.op = singleQubitOperationMatrix,
                   !.qubitIndex = targetQubit,
                   !.controls = qubitsUsedAsControls,
                   !.out = expandOperation(qpu, singleQubitOperationMatrix,
                                           targetQubit, qubitsUsedAsControls),
                   !.pre = qpu]
    /\ prev' = last
    /\ UNCHANGED <<pc, qpu, twin, performed>>

NextExpand ==
    \E g \in Gates, t \in 0..(MaxQubits - 1), c \in ControlLists :
        ExpandOperation(g, t, c)

SpecExpand == InitExpand /\ [][NextExpand]_vars

\* ------------------------------------------------------------------------
\* Two computers of the same size, started from different true states and
\* driven by the same calls; a measurement is followed only while both
\* computers return the same outcome
\* ------------------------------------------------------------------------
TwinStates ==
    { <<Col(<<COne, CZero>>), Col(<<CReal(3, 5), CReal(4, 5)>>)>>,
      <<Col(<<CReal(4, 5), CReal(3, 5)>>), Col(<<CZero, Cx(RZero, ROne)>>)>>,
      <<Col(<<CReal(3, 5), CReal(4, 5)>>), Col(<<CZero, CZero>>)>>,
      <<Col(<<CReal(3, 5), CZero, CZero, CReal(4, 5)>>),
        Col(<<CZero, COne, CZero, CZero>>)>> }

InitTwin ==
    /\ pc = "running"
    /\ \E pair \in TwinStates :
          /\ qpu = constructor(pair[1]).this
          /\ twin = constructor(pair[2]).this
    /\ last = NoCall
    /\ prev = NoCall
    /\ performed = 0

TwinApplyOperation(opMatrix) ==
    /\ qpu.operationCount < MaxOps
    /\ \E a \in {applyOperation(qpu, opMatrix)}, b \in {applyOperation(twin, opMatrix)} :
          /\ qpu' = a.this
          /\ twin' = b.this
          /\ last' = [NoCall EXCEPT !.call = "apply", !.threw = a.threw,
                                    !.op = opMatrix]
    /\ UNCHANGED <<pc, prev, performed>>

TwinMeasureQubit(qubitIndex, random1, random2) ==
    /\ qpu.operationCount < MaxOps
    /\ \E a \in {measureQubit(qpu, qubitIndex, random1)},
          b \in {measureQubit(twin, qubitIndex, random2)} :
          /\ a.result = b.result
          /\ qpu' = a.this
          /\ twin' = b.this
          /\ last' = [NoCall EXCEPT !.call = "measure", !.qubitIndex = qubitIndex,
                                    !.result = a.result]
    /\ UNCHANGED <<pc, prev, performed>>

NextTwin ==
    \/ \E opMatrix \in Operators(qpu) : TwinApplyOperation(opMatrix)
    \/ \E qubitIndex \in 0..1, random1 \in Randoms, random2 \in Randoms :
          TwinMeasureQubit(qubitIndex, random1, random2)

SpecTwin == InitTwin /\ [][NextTwin]_vars

\* ------------------------------------------------------------------------
\* traceQubitOutOfDensityMatrix on its own: one call, for every density
\* matrix and qubit index of the bounded input sets
\* ------------------------------------------------------------------------
\* amplitudes of the pure states whose density matrices are traced
Amplitudes == {CZero, COne, Cx(RZero, ROne), CReal(2, 1)}

\* columns of 1 and 2 qubits over Amplitudes (2 qubits: those starting with 1)
TraceColumns ==
    { Matrix(1, 2, <<a, b>>) : a \in Amplitudes, b \in Amplitudes }
    \cup { Matrix(1, 4, <<COne, b, c, d>>) :
              b \in Amplitudes, c \in Amplitudes, d \in Amplitudes }

\* a Hermitian matrix of n qubits whose entries are all different
Ramp(n) ==
    Matrix(Shl1(n), Shl1(n),
           [k \in 1..(Shl1(n) * Shl1(n)) |->
               LET r == (k - 1) \div Shl1(n)
                   c == (k - 1) % Shl1(n)
               IN  Cx(Frac(r * c + r + c + 1, 1), Frac(r - c, 1))])

\* the density matrices redraw passes to traceQubitOutOfDensityMatrix: the
\* outer product of a true state, and inferred density matrices
Densities ==
    { times(col, adjoint(col)) : col \in TraceColumns }
    \cup { normalizeDensity(identity(Shl1(n))) : n \in 1..MaxQubits }
    \cup { Ramp(n) : n \in 1..MaxQubits }

InitTrace ==
    /\ pc = "drawing"
    /\ qpu = <<>>
    /\ \E density \in Densities : last = [NoCall EXCEPT !.op = density]
    /\ prev = NoCall
    /\ twin = <<>>
    /\ performed = 0

TraceQubitOutOfDensityMatrix(qubitIndex) ==
    /\ pc = "drawing"
    /\ last.call = "none"
    /\ last' = [last EXCEPT
                   !.call = "trace",
                   !.qubitIndex = qubitIndex,
                   !.out = traceQubitOutOfDensityMatrix(last.op, qubitIndex)]
    /\ prev' = last
    /\ UNCHANGED <<pc, qpu, twin, performed>>

NextTrace == \E qubitIndex \in 0..MaxQubits : TraceQubitOutOfDensityMatrix(qubitIndex)

SpecTrace == InitTrace /\ [][NextTrace]_vars

\* ------------------------------------------------------------------------
\* The driver (main.js): a computer of numQubits qubits in a random state,
\* the operations expanded once, and the drawLoop callback run again and
\* again, one statement per step.  The driver's Hadamard and rotation
\* matrices have irrational entries; each is represented by a unitary of the
\* same kind with rational entries.
\* ------------------------------------------------------------------------
numQubits == 4

\* in place of Matrix.HADAMARD: a symmetric real reflection
HADAMARD == Matrix(2, 2, <<CReal(3, 5), CReal(4, 5), CReal(4, 5), CReal(-3, 5)>>)
\* in place of Matrix.fromAngleAxisPhaseRotation(angle, [1, 0, 0]): the
\* rotation about the X axis by a half turn, cos = 0 and sin = 1
ROT_X == Matrix(2, 2, <<CZero, Cx(RZero, Frac(-1, 1)), Cx(RZero, Frac(-1, 1)), CZero>>)

X0 == expandOp(PAULI_X, 0, numQubits, <<>>)
X3 == expandOp(PAULI_X, 3, numQubits, <<>>)
H0 == expandOp(HADAMARD, 0, numQubits, <<>>)
CNOT_2_ONTO_3 == expandOp(PAULI_X, 3, numQubits, <<2>>)
SMALL_Y_ROT_1 == expandOp(ROT_Y, 1, numQubits, <<>>)
SMALL_X_ROT_2_WHEN_1 == expandOp(ROT_X, 2, numQubits, <<1>>)
CONFOUNDING_X3 == expandOp(ROT_X, 3, numQubits, <<>>)

MaxLoopOps == 10

\* the samples of generateUnknownState(numQubits) that give the entries in
\* some, and 0 (the sample 1/2) everywhere else
DrawsWith(some) ==
    [k \in 1..Shl1(numQubits) |->
        IF k - 1 \in DOMAIN some THEN some[k - 1] ELSE <<Frac(1, 2), Frac(1, 2)>>]

LoopDraws ==
    { DrawsWith(0 :> <<Frac(9, 10), Frac(1, 2)>>),
      DrawsWith(0 :> <<Frac(4, 5), Frac(1, 2)>> @@ 1 :> <<Frac(9, 10), Frac(1, 2)>>),
      DrawsWith(10 :> <<Frac(1, 2), Frac(1, 5)>>),
      DrawsWith(8 :> <<Frac(4, 5), Frac(1, 2)>> @@ 9 :> <<Frac(1, 2), Frac(9, 10)>>),
      DrawsWith(4 :> <<Frac(1, 10), Frac(1, 2)>>) }

\* samples of the Math.random() < 0.3 test
MixSamples == {Frac(1, 10), Frac(1, 2)}

InitLoop ==
    /\ pc = "measure0"
    /\ \E draws \in LoopDraws :
          qpu = constructor([instanceOfMatrix |-> TRUE,
                             value |-> generateUnknownState(numQubits, draws)]).this
    /\ last = NoCall
    /\ prev = NoCall
    /\ twin = <<>>
    /\ performed = 0

\* let generatedEntropy = qpu.measureQubit(0);
\* if (Math.random() < 0.3) generatedEntropy = !generatedEntropy;
\* if (generatedEntropy) ...
LoopMeasure0(random, mix) ==
    /\ pc = "measure0"
    /\ qpu.operationCount < MaxLoopOps
    /\ \E r \in {measureQubit(qpu, 0, random)} :
          LET generatedEntropy ==
                  IF RLess(mix, Frac(3, 10)) THEN ~r.result ELSE r.result
          IN  /\ qpu' = r.this
              /\ last' = [NoCall EXCEPT !.call = "measure", !.qubitIndex = 0,
                                        !.result = r.result]
              /\ pc' = IF generatedEntropy THEN "SMALL_Y_ROT_1" ELSE "H0"
    /\ performed' = performed + 1
    /\ UNCHANGED <<prev, twin>>

\* qpu.applyOperation(opMatrix) at the position at, going on to next
LoopApply(at, opMatrix, next) ==
    /\ pc = at
    /\ \E r \in {applyOperation(qpu, opMatrix)} :
          /\ qpu' = r.this
          /\ last' = [NoCall EXCEPT !.call = "apply", !.threw = r.threw]
          /\ pc' = IF r.threw THEN "failed" ELSE next
          /\ performed' = IF r.threw THEN performed ELSE performed + 1
    /\ UNCHANGED <<prev, twin>>

\* the measurement of qubit 3 with the X3 gate applied when it returned false
LoopMeasure3_clearWhenOff(random) ==
    /\ pc = "measure3"
    /\ \E r \in {measureQubit(qpu, 3, random)} :
          /\ qpu' = r.this
          /\ last' = [NoCall EXCEPT !.call = "measure", !.qubitIndex = 3,
                                    !.result = r.result]
          /\ pc' = IF r.result THEN "measure0" ELSE "X3"
    /\ performed' = performed + 1
    /\ UNCHANGED <<prev, twin>>

\* let measureResult = qpu.measureQubit(3); if (measureResult) ...
LoopMeasure3(random) ==
    /\ pc = "measure3"
    /\ \E r \in {measureQubit(qpu, 3, random)} :
          /\ qpu' = r.this
          /\ last' = [NoCall EXCEPT !.call = "measure", !.qubitIndex = 3,
                                    !.result = r.result]
          /\ pc' = IF r.result THEN "X3" ELSE "measure0"
    /\ performed' = performed + 1
    /\ UNCHANGED <<prev, twin>>

NextLoop ==
    \/ \E random \in Randoms, mix \in MixSamples : LoopMeasure0(random, mix)
    \/ LoopApply("SMALL_Y_ROT_1", SMALL_Y_ROT_1, "X0")
    \/ LoopApply("X0", X0, "H0")
    \/ LoopApply("H0", H0, "SMALL_X_ROT_2_WHEN_1")
    \/ LoopApply("SMALL_X_ROT_2_WHEN_1", SMALL_X_ROT_2_WHEN_1, "CNOT_2_ONTO_3")
    \/ LoopApply("CNOT_2_ONTO_3", CNOT_2_ONTO_3, "CONFOUNDING_X3")
    \/ LoopApply("CONFOUNDING_X3", CONFOUNDING_X3, "measure3")
    \/ \E random \in Randoms : LoopMeasure3(random)
    \/ LoopApply("X3", X3, "measure0")

SpecLoop == InitLoop /\ [][NextLoop]_vars

\* ------------------------------------------------------------------------
\* Vocabulary of the properties, defined from the mathematics and not from
\* the program's loops
\* ------------------------------------------------------------------------
\* bit q of the basis index i, as a boolean
BitSet(i, q) == (i \div Shl1(q)) % 2 = 1

RECURSIVE RSum(_, _, _)
RSum(f, from, to) ==
    IF from > to THEN RZero
    ELSE IF from = to THEN f[from]
    ELSE LET mid == (from + to) \div 2
         IN  RAdd(RSum(f, from, mid), RSum(f, mid + 1, to))

\* sum of |amplitude|^2 of a column
Norm2(col) == RSum([k \in 1..col.h |-> CNorm2(col.buf[k])], 1, col.h)

\* probability that qubit q of the pure state col is on
ProbOn(col, q) ==
    RSum([k \in 1..col.h |-> IF BitSet(k - 1, q) THEN CNorm2(col.buf[k]) ELSE RZero],
         1, col.h)

\* the on-probability of qubit q a density matrix predicts
PredictedOn(density, q) ==
    RSum([k \in 1..density.h |->
             IF BitSet(k - 1, q) THEN Cell(density, k - 1, k - 1)[1] ELSE RZero],
         1, density.h)

ExactlyUnitary(m) == m.w = m.h /\ times(m, adjoint(m)) = identity(m.w)

Called(c, name) == c.call = name /\ ~c.threw

\* ------------------------------------------------------------------------
\* C1.  An applyOperation call that raises an error (wrong size, or not
\* unitary) leaves the true state, the inferred density matrix, the operation
\* count and the misprediction score exactly as they were before the call.
\* ------------------------------------------------------------------------
C1_FailedApplyMutatesNothing ==
    (pc = "running" /\ last.call = "apply" /\ last.threw) => qpu = last.pre

\* ------------------------------------------------------------------------
\* C2.  In every state reached from a construction that passed validation
\* the true state has unit norm and the inferred density matrix has trace 1.
\* ------------------------------------------------------------------------
C2_UnitNormAndTrace ==
    pc = "running" =>
        /\ Norm2(qpu.actualHiddenState) = ROne
        /\ trace(qpu.inferredStateDensity) = COne

\* ------------------------------------------------------------------------
\* C4.  After measureQubit(q) returned b, every amplitude of the true state
\* at an index whose bit q differs from b is zero, every entry of the
\* inferred density matrix whose row or column has bit q different from b is
\* zero, and for a 1-qubit computer the inferred density matrix is the
\* diagonal matrix with a 1 in the slot of b.
\* ------------------------------------------------------------------------
C4_CollapsedOntoOutcome ==
    (pc = "running" /\ last.call = "measure") =>
        LET q == last.qubitIndex
            b == last.result
            h == qpu.actualHiddenState.h
        IN  /\ \A i \in 0..(h - 1) :
                  BitSet(i, q) # b => qpu.actualHiddenState.buf[i + 1] = CZero
            /\ \A r \in 0..(h - 1), c \in 0..(h - 1) :
                  (BitSet(r, q) # b \/ BitSet(c, q) # b)
                      => Cell(qpu.inferredStateDensity, r, c) = CZero
            /\ (h = 2 /\ q = 0) =>
                  qpu.inferredStateDensity.buf =
                      IF b THEN <<CZero, CZero, CZero, COne>>
                           ELSE <<COne, CZero, CZero, CZero>>

\* ------------------------------------------------------------------------
\* C5.  Measuring the same qubit twice in succession returns the same
\* boolean both times whatever samples are drawn; the second call adds 0 to
\* the misprediction score and leaves the true state and the inferred
\* density matrix unchanged.
\* ------------------------------------------------------------------------
C5_RepeatedMeasurement ==
    (pc = "running" /\ prev.call = "measure" /\ last.call = "measure"
        /\ prev.qubitIndex = last.qubitIndex) =>
        /\ last.result = prev.result
        /\ RAbs(RSub(PredictedOn(last.pre.inferredStateDensity, last.qubitIndex),
                     ProbOn(last.pre.actualHiddenState, last.qubitIndex))) = RZero
        /\ qpu.expectedIgnoranceErrors = last.pre.expectedIgnoranceErrors
        /\ qpu.actualHiddenState = last.pre.actualHiddenState
        /\ qpu.inferredStateDensity = last.pre.inferredStateDensity

\* ------------------------------------------------------------------------
\* C6.  measureQubit draws exactly one sample r and returns true exactly
\* when r is less than the true state's on-probability of the qubit, so a
\* qubit that is certainly off measures false and one that is certainly on
\* measures true: the state [1,0] measures false, and true after Pauli-X.
\* applyOperation draws no sample.
\* ------------------------------------------------------------------------
C6_SampledFromTrueProbability ==
    /\ last.call = "measure" =>
          LET p == ProbOn(last.pre.actualHiddenState, last.qubitIndex)
          IN  /\ last.randomCalls = 1
              /\ last.result = RLess(last.random, p)
              /\ p = RZero => ~last.result
              /\ p = ROne => last.result
    /\ last.call = "apply" => last.randomCalls = 0
    /\ (last.call = "measure" /\ last.qubitIndex = 0
          /\ last.pre.actualHiddenState.buf = <<COne, CZero>>) => ~last.result
    /\ (last.call = "measure" /\ last.qubitIndex = 0
          /\ Called(prev, "apply") /\ prev.op = PAULI_X
          /\ prev.pre.actualHiddenState.buf = <<COne, CZero>>) => last.result

\* a measurement whose outcome the sample decided, and one after [1,0], X
C6_Witness ==
    /\ last.call = "measure" /\ last.result
    /\ last.random = Frac(1, 2)
    /\ RLess(RZero, ProbOn(last.pre.actualHiddenState, last.qubitIndex))
    /\ RLess(ProbOn(last.pre.actualHiddenState, last.qubitIndex), ROne)

\* ------------------------------------------------------------------------
\* C9.  applyOperation(U) followed by applyOperation(adjoint(U)), U unitary,
\* returns the true state and the inferred density matrix to their values
\* before U and leaves the misprediction score unchanged.
\* ------------------------------------------------------------------------
C9_RoundTrip ==
    (pc = "running" /\ Called(prev, "apply") /\ Called(last, "apply")
        /\ ExactlyUnitary(prev.op) /\ last.op = adjoint(prev.op)) =>
        /\ qpu.actualHiddenState = prev.pre.actualHiddenState
        /\ qpu.inferredStateDensity = prev.pre.inferredStateDensity
        /\ qpu.expectedIgnoranceErrors = prev.pre.expectedIgnoranceErrors

\* the round trip of the rotation, from a state whose density matrix is no
\* longer maximally mixed and whose true state is a superposition
C9_Witness ==
    /\ pc = "running" /\ Called(prev, "apply") /\ Called(last, "apply")
    /\ prev.op = ROT_Y /\ last.op = adjoint(ROT_Y)
    /\ prev.pre.operationCount > 0
    /\ prev.pre.inferredStateDensity # normalizeDensity(identity(2))
    /\ last.pre.actualHiddenState # prev.pre.actualHiddenState

\* ------------------------------------------------------------------------
\* C10.  Construction fails, creating no computer, unless the initial state
\* is a matrix of width 1 whose height is a power of 2; when it succeeds the
\* true state is the input scaled to unit norm, the inferred density matrix
\* is identity / height, and the operation count and the score are 0.
\* ------------------------------------------------------------------------
C10_Construction ==
    last.call = "new" =>
        LET in == last.arg
            ok == in.instanceOfMatrix /\ in.value.w = 1 /\ isPowerOf2(in.value.h)
        IN  /\ last.threw = ~ok
            /\ last.threw => (pc = "failed" /\ qpu = <<>>)
            /\ ~last.threw =>
                  /\ pc = "running"
                  /\ Norm2(qpu.actualHiddenState) = ROne
                  /\ \E s \in {RInv(RSqrt(Norm2(in.value)))} :
                        qpu.actualHiddenState = timesScalar(in.value, Cx(s, RZero))
                  /\ qpu.inferredStateDensity =
                        timesScalar(identity(in.value.h),
                                    Cx(Frac(1, in.value.h), RZero))
                  /\ qpu.operationCount = 0
                  /\ qpu.expectedIgnoranceErrors = RZero

\* ------------------------------------------------------------------------
\* C3.  Two computers of the same size started from different true states,
\* given the same applyOperation matrices and measureQubit indices and
\* returning the same outcomes, have equal inferred density matrices after
\* every step.
\* ------------------------------------------------------------------------
C3_InferredIgnoresTrueState ==
    qpu.inferredStateDensity = twin.inferredStateDensity

\* after a measurement and a later call, with the two true states still
\* different and the inferred density matrix no longer maximally mixed
C3_Witness ==
    /\ qpu.operationCount >= 2
    /\ last.call = "measure"
    /\ qpu.actualHiddenState # twin.actualHiddenState
    /\ Norm2(qpu.actualHiddenState) = ROne
    /\ Norm2(twin.actualHiddenState) = ROne
    /\ qpu.inferredStateDensity #
           normalizeDensity(identity(qpu.actualHiddenState.h))

\* ------------------------------------------------------------------------
\* C7 as claimed.  For every single-qubit unitary, every target and every
\* list of control indices, the matrix expandOperation returns is unitary
\* and applyOperation accepts it.
\* ------------------------------------------------------------------------
C7_ExpandedIsUnitary ==
    (last.call = "expand" /\ ExactlyUnitary(last.op)) =>
        /\ ExactlyUnitary(last.out)
        /\ ~applyOperation(qpu, last.out).threw

TargetIsNoControl(c) == \A i \in 1..Len(c.controls) : c.controls[i] # c.qubitIndex

\* ------------------------------------------------------------------------
\* C7 restricted to control lists that do not contain the target: there the
\* matrix expandOperation returns is unitary and applyOperation accepts it.
\* ------------------------------------------------------------------------
C7_ExpandedIsUnitaryOffTarget ==
    (last.call = "expand" /\ ExactlyUnitary(last.op) /\ TargetIsNoControl(last)) =>
        /\ ExactlyUnitary(last.out)
        /\ ~applyOperation(qpu, last.out).threw

\* the rotation on qubit 2 of three, controlled by qubits 0 and 1
C7_OffTargetWitness ==
    /\ last.call = "expand" /\ last.op = ROT_Y /\ last.qubitIndex = 2
    /\ last.controls = <<0, 1>> /\ last.out.h = 8
    /\ last.out # identity(8)

\* ------------------------------------------------------------------------
\* C8.  The operator expandOperation returns for control list C has, for
\* every basis index whose bits at the positions in C are not all 1, the
\* identity column and the identity row at that index.
\* ------------------------------------------------------------------------
C8_ControlsFixBasisStates ==
    last.call = "expand" =>
        LET m == last.out
            c == last.controls
            Delta(i, j) == IF i = j THEN COne ELSE CZero
        IN  \A b \in 0..(m.h - 1) :
                (\E i \in 1..Len(c) : ~BitSet(b, c[i])) =>
                    \A j \in 0..(m.h - 1) :
                        /\ Cell(m, j, b) = Delta(j, b)
                        /\ Cell(m, b, j) = Delta(b, j)

\* a controlled gate that fixes some basis states and moves others
C8_Witness ==
    /\ last.call = "expand" /\ last.op = PAULI_X /\ last.qubitIndex = 1
    /\ last.controls = <<0>> /\ last.out.h = 4
    /\ Cell(last.out, 3, 1) = COne /\ Cell(last.out, 0, 0) = COne

\* ------------------------------------------------------------------------
\* C11.  The operation count is 0 after construction and, after any sequence
\* of calls, equals the number of applyOperation and measureQubit operations
\* performed on the computer (a call that raises an error performs nothing).
\* ------------------------------------------------------------------------
C11_CountsPerformedOperations ==
    pc = "running" => qpu.operationCount = performed

\* C11 with every call counted, the rejected ones included: construction
\* leaves the count at 0, and each applyOperation or measureQubit call,
\* whether it returns or throws, raises the count by exactly 1.
C11_CountsEveryCall ==
    /\ (Called(last, "new") \/ Called(last, "random")) => qpu.operationCount = 0
    /\ last.call \in {"apply", "measure"} =>
           qpu.operationCount = last.pre.operationCount + 1

\* ------------------------------------------------------------------------
\* C12.  Each measureQubit(q) call adds to the misprediction score exactly
\* |predicted - actual|, both on-probabilities of qubit q taken before the
\* collapse; applyOperation leaves the score unchanged; so the score is
\* non-negative and never decreases.
\* ------------------------------------------------------------------------
C12_ScoreAccumulates ==
    /\ last.call = "measure" =>
          /\ qpu.expectedIgnoranceErrors =
                 RAdd(last.pre.expectedIgnoranceErrors,
                      RAbs(RSub(PredictedOn(last.pre.inferredStateDensity,
                                            last.qubitIndex),
                                ProbOn(last.pre.actualHiddenState, last.qubitIndex))))
          /\ RLeq(last.pre.expectedIgnoranceErrors, qpu.expectedIgnoranceErrors)
    /\ last.call = "apply" =>
          qpu.expectedIgnoranceErrors = last.pre.expectedIgnoranceErrors
    /\ pc = "running" => RLeq(RZero, qpu.expectedIgnoranceErrors)

\* the sum of f[r, c] over the index pairs r, c of a square matrix of height h
\* that satisfy P
CSumPairs(h, P(_, _), F(_, _)) ==
    CSum([k \in 1..(h * h) |->
             LET r == (k - 1) \div h
                 c == (k - 1) % h
             IN  IF P(r, c) THEN F(r, c) ELSE CZero],
         1, h * h)

\* the on-probability measureQubit computes from the diagonal of the density
\* matrix d (its predictedOnNess), whatever the true state is
predictedOnNess(d, q) ==
    onNessLoop([actualHiddenState |-> Matrix(1, d.h, [k \in 1..d.h |-> CZero]),
                inferredStateDensity |-> d],
               q, 2 * d.h, <<RZero, RZero>>)[2]

\* ------------------------------------------------------------------------
\* C16.  The partial trace of qubit q out of a density matrix D is the 2x2
\* matrix whose entry (a, b) is the sum of D[r][c] over the pairs r, c that
\* agree on every bit except bit q, with bit q of r equal to a and bit q of c
\* equal to b; its trace is the trace of D, and its (1,1) entry is the
\* on-probability of qubit q that measureQubit computes from D's diagonal.
\* ------------------------------------------------------------------------
C16_PartialTrace ==
    last.call = "trace" =>
        LET D == last.op
            q == last.qubitIndex
            m == last.out
            Bit(i) == IF BitSet(i, q) THEN 1 ELSE 0
            AgreeOffQ(r, c) ==
                \A j \in 0..MaxQubits : j # q => (BitSet(r, j) <=> BitSet(c, j))
            Entry(r, c) == Cell(D, r, c)
        IN  /\ m.w = 2 /\ m.h = 2
            /\ \A a \in 0..1, b \in 0..1 :
                  LET Sel(r, c) == AgreeOffQ(r, c) /\ Bit(r) = a /\ Bit(c) = b
                  IN  Cell(m, a, b) = CSumPairs(D.h, Sel, Entry)
            /\ trace(m) = trace(D)
            /\ Cell(m, 1, 1) = <<predictedOnNess(D, q), RZero>>

\* a two-qubit density matrix with non-zero off-diagonal entries, traced over
\* qubit 1, with both diagonal entries of the result non-zero
C16_Witness ==
    /\ last.call = "trace" /\ last.qubitIndex = 1 /\ last.op.h = 4
    /\ Cell(last.op, 0, 3) # CZero
    /\ Cell(last.out, 0, 0) # CZero /\ Cell(last.out, 1, 1) # CZero
    /\ Cell(last.out, 0, 1) # CZero

\* the basis index b with bit k flipped: b XOR 2^k
FlipBit(b, k) == IF BitSet(b, k) THEN b - Shl1(k) ELSE b + Shl1(k)

\* the computer constructed on the basis state b of a register of height h
OnBasisState(b, h) ==
    constructor(Col([i \in 1..h |-> IF i = b + 1 THEN COne ELSE CZero])).this

\* ------------------------------------------------------------------------
\* C13.  One bit order throughout: expandOperation(M, k) without controls
\* acts with M on bit k of the basis index and as the identity on the other
\* bits; that is the bit measureQubit(k) masks and the partial trace of qubit
\* k extracts.  Expanded Pauli-X on qubit k maps basis state b to b XOR 2^k,
\* flips the outcome of measureQubit(k) and leaves the outcome of every
\* other qubit's measurement unchanged.  On a 1-qubit register
\* expandOperation(M, 0) is M.
\* ------------------------------------------------------------------------
C13_OneBitOrder ==
    (/\ last.call = "expand" /\ last.controls = <<>>
     /\ Shl1(last.qubitIndex) < last.out.h) =>
        LET M == last.op
            k == last.qubitIndex
            U == last.out
            h == U.h
            Bit(i, q) == IF BitSet(i, q) THEN 1 ELSE 0
            AgreeOff(r, c) ==
                \A j \in 0..MaxQubits : j # k => (BitSet(r, j) <=> BitSet(c, j))
        IN  /\ \A r \in 0..(h - 1), c \in 0..(h - 1) :
                  Cell(U, r, c) = IF AgreeOff(r, c)
                                  THEN Cell(M, Bit(r, k), Bit(c, k))
                                  ELSE CZero
            /\ h = 2 => U = M
            /\ M = PAULI_X =>
                  \A b \in 0..(h - 1) :
                    \A before \in {OnBasisState(b, h)} :
                    \A after \in {applyOperation(before, U).this} :
                      /\ after.actualHiddenState =
                             OnBasisState(FlipBit(b, k), h).actualHiddenState
                      /\ \A j \in 0..(Log2(h) - 1), random \in Randoms :
                            /\ measureQubit(before, j, random).result = BitSet(b, j)
                            /\ measureQubit(after, j, random).result =
                                   (IF j = k THEN ~BitSet(b, j) ELSE BitSet(b, j))
                      /\ \A j \in 0..(Log2(h) - 1) :
                            Cell(traceQubitOutOfDensityMatrix(
                                     times(after.actualHiddenState,
                                           adjoint(after.actualHiddenState)), j),
                                 1, 1)
                              = (IF BitSet(FlipBit(b, k), j) THEN COne ELSE CZero)

\* Pauli-X expanded onto qubit 1 of three, without controls
C13_Witness ==
    /\ last.call = "expand" /\ last.op = PAULI_X /\ last.qubitIndex = 1
    /\ last.controls = <<>> /\ last.out.h = 8
    /\ Cell(last.out, 2, 0) = COne /\ Cell(last.out, 1, 0) = CZero

\* ------------------------------------------------------------------------
\* C14.  In the driver loop, at the end of every iteration (after
\* measureQubit(3), and the X3 gate applied exactly when it returned true)
\* qubit 3 is certainly off in both representations: the true state's and
\* the inferred density matrix's on-probability for qubit 3 are 0.
\* ------------------------------------------------------------------------
C14_Qubit3ClearedEachIteration ==
    (pc = "measure0" /\ last.call # "none") =>
        /\ ProbOn(qpu.actualHiddenState, 3) = RZero
        /\ PredictedOn(qpu.inferredStateDensity, 3) = RZero

\* the end of a second or later iteration, reached through the X3 gate
C14_Witness ==
    /\ pc = "measure0" /\ last.call = "apply"
    /\ qpu.operationCount > 9
    /\ Norm2(qpu.actualHiddenState) = ROne

\* probability that qubit q of the pure state col is measured as b
ProbOutcome(col, q, b) ==
    RSum([k \in 1..col.h |->
             IF BitSet(k - 1, q) = b THEN CNorm2(col.buf[k]) ELSE RZero],
         1, col.h)

\* the probability of outcome b on qubit q a density matrix predicts: the
\* trace of the density matrix post-selected on that outcome
PredictedOutcome(density, q, b) ==
    RSum([k \in 1..density.h |->
             IF BitSet(k - 1, q) = b THEN Cell(density, k - 1, k - 1)[1] ELSE RZero],
         1, density.h)

\* ------------------------------------------------------------------------
\* C15.  In every state reachable from construction by applyOperation and
\* measureQubit, an outcome the true state can produce (probability above 0)
\* is one the inferred density matrix gives a non-zero probability; so the
\* inferred density matrix post-selected by measureQubit has non-zero trace
\* and its renormalisation does not divide by zero.
\* ------------------------------------------------------------------------
C15_TruthNeverRuledOut ==
    /\ pc = "running" =>
          \A q \in 0..1, b \in BOOLEAN :
              RLess(RZero, ProbOutcome(qpu.actualHiddenState, q, b)) =>
                  PredictedOutcome(qpu.inferredStateDensity, q, b) # RZero
    /\ last.call = "measure" =>
          /\ PredictedOutcome(last.pre.inferredStateDensity, last.qubitIndex,
                              last.result) # RZero
          /\ \A k \in 1..Len(qpu.inferredStateDensity.buf) :
                /\ IsFinite(qpu.inferredStateDensity.buf[k][1])
                /\ IsFinite(qpu.inferredStateDensity.buf[k][2])

====
